---- MODULE Spec2Model ----
(***************************************************************************)
(* Model of py-package-updater's compatibility search:                     *)
(*   package_updater/update_tester.py       (UpdateTester)                 *)
(*   package_updater/environment_manager.py (EnvironmentManager)           *)
(*   package_updater/package_manager.py     (PackageManager)               *)
(*   package_updater/__main__.py            (main)                         *)
(*   package_updater/file_updater.py        (FileUpdater)                  *)
(*   package_updater/report_generator.py    (ReportGenerator)              *)
(*                                                                         *)
(* Four specifications share the actions: Spec follows the searches of an  *)
(* UpdateTester, SpecLifecycle its setup, cleanup and single-package       *)
(* searches called in any order, SpecMain a command-line run, and          *)
(* SpecMainMocked a command-line run whose search returns any results.     *)
(*                                                                         *)
(* Version strings are the numbers 1..MaxStr.  Two strings can spell the   *)
(* same version ("1.0" and "1.0.0"): parse maps the strings 2k-1 and 2k to *)
(* the version k, so string equality and version order are different       *)
(* things, as they are in the code.  Package names are strings; "Q" and    *)
(* "q" are the same project spelled with different letter case.            *)
(***************************************************************************)
EXTENDS Integers, Sequences, FiniteSets, TLC

MaxStr == 3
MaxLines == 2
MaxPublished == 2
MaxPinned == 1

None == 0
Unknown == -1

Str == 1..MaxStr
\* Names a manifest or a caller uses ("Q" is listed by pip as "q" or "Q"),
\* and the projects they name
Names == {"p", "Q"}
Canon == {"p", "q"}

VARIABLES
  manifest,            \* requirements.txt: sequence of [name, ver] lines
  dist_name,           \* the name under which pip lists project q
  current_packages,    \* PackageManager.current_packages (name -> version or None)
  pkg_order,           \* insertion order of current_packages' keys
  venv_exists,         \* the sandbox directory exists
  installed,           \* the sandbox's installed set (project -> version or None)
  pc,                  \* position of the running call
  op,                  \* the public operation that is running
  caller,              \* who called setup_test_environment
  baseline_ok,         \* outcome of update_all_packages' own setup ("unset" before)
  pending,             \* packages update_all_packages has still to visit
  results,             \* update_all_packages' local results
  package_name, current_version, latest_version,
  versions, idx,       \* the candidate list and the position of the walk in it
  tested_versions, failed_versions, compatible_version,
  ret,                 \* value returned by the last call
  raised,              \* the last call ended by raising
  ops,                 \* kinds of step the running call has performed
  latest_lookups,      \* get_latest_version calls of the running search
  setup_log,           \* stages the running or just returned setup_test_environment executed, with outcome
  setup_ret,           \* what that call returned ("running" before, "none" when no call is at hand)
  succession,          \* installed sets around successive successful setup calls: before the first, after each
  temp_requirements,   \* the sandbox holds temp_requirements.txt
  file_handler,        \* the log file handler of the UpdateTester: "attached" or "detached"
  run,                 \* the command-line run: position in main, arguments, updates, exit code
  walk                 \* positions of the candidate list attempted by the running search, with outcome

vars == <<manifest, dist_name, current_packages, pkg_order, venv_exists, installed,
          pc, op, caller, baseline_ok, pending, results,
          package_name, current_version, latest_version, versions, idx,
          tested_versions, failed_versions, compatible_version,
          ret, raised, ops, walk, latest_lookups,
          setup_log, setup_ret, succession, temp_requirements, file_handler,
          run>>

envVars == <<venv_exists, installed>>
pkgVars == <<manifest, dist_name, current_packages, pkg_order>>
setupVars == <<setup_log, setup_ret, succession>>
searchVars == <<package_name, current_version, latest_version, versions, idx,
                tested_versions, failed_versions, compatible_version, walk,
                 latest_lookups>>

----------------------------------------------------------------------------
(* Helpers for dictionaries and lists *)

EmptyMap == [x \in {} |-> None]

Put(f, k, v) == [x \in (DOMAIN f) \cup {k} |-> IF x = k THEN v ELSE f[x]]

Get(f, k) == IF k \in DOMAIN f THEN f[k] ELSE None

Range(s) == {s[i] : i \in 1..Len(s)}

\* str.lower() on package names
Lower(n) == IF n = "Q" THEN "q" ELSE n

\* packaging.version.parse: the version a string spells
parse(s) == (s + 1) \div 2

NoPackages == [c \in Canon |-> None]

----------------------------------------------------------------------------
(* PackageManager *)

RECURSIVE parse_requirements_txt(_)
\* The name -> version dictionary read from the manifest; a later line for
\* the same name replaces the version of an earlier one.
parse_requirements_txt(lines) ==
  IF lines = <<>> THEN EmptyMap
  ELSE LET n == Len(lines)
           packages == parse_requirements_txt(SubSeq(lines, 1, n - 1))
       IN Put(packages, lines[n].name, lines[n].ver)

RECURSIVE key_order(_)
\* Order in which a dictionary built from the manifest lists its keys:
\* the order of first insertion.
key_order(lines) ==
  IF lines = <<>> THEN <<>>
  ELSE LET n == Len(lines)
           before == key_order(SubSeq(lines, 1, n - 1))
       IN IF lines[n].name \in Range(before) THEN before
          ELSE Append(before, lines[n].name)

\* all_versions.sort(key=version.parse): every listing of the published
\* strings in non-decreasing version order (the sort is stable, the order
\* of two spellings of one version is the registry's).
SortedLists(published) ==
  {s \in [1..Cardinality(published) -> published] :
     /\ \A i, j \in DOMAIN s : i # j => s[i] # s[j]
     /\ \A i, j \in DOMAIN s : i < j => parse(s[i]) <= parse(s[j])}

\* next((i for i, v in enumerate(all_versions) if parse(v) >= parse(bound)), default)
\* as a 1-based position.
FirstAtLeast(all_versions, bound, default) ==
  LET hits == {i \in 1..Len(all_versions) : parse(all_versions[i]) >= parse(bound)}
  IN IF hits = {} THEN default
     ELSE CHOOSE i \in hits : \A j \in hits : i <= j

Min(a, b) == IF a <= b THEN a ELSE b

\* all_versions[current_idx:latest_idx + 1]
get_version_range(all_versions, current, latest) ==
  LET current_idx == FirstAtLeast(all_versions, current, 1)
      latest_idx == FirstAtLeast(all_versions, latest, Len(all_versions) + 1)
  IN SubSeq(all_versions, current_idx, Min(latest_idx, Len(all_versions)))

----------------------------------------------------------------------------
(* EnvironmentManager *)

\* Name under which pip lists an installed project.
DistName(c) == IF c = "q" THEN dist_name ELSE c

\* get_installed_packages: pip's listing, or {} when the listing fails.
get_installed_packages(listing_ok) ==
  IF listing_ok /\ venv_exists
  THEN LET present == {c \in Canon : installed[c] # None}
       IN [n \in {DistName(c) : c \in present} |-> installed[Lower(n)]]
  ELSE EmptyMap

RECURSIVE verify_installation(_, _, _)
\* "true", "false", or "raise" (installed[package] on a name pip lists in
\* another letter case).
verify_installation(order, requirements, listing) ==
  IF order = <<>> THEN "true"
  ELSE LET package == Head(order)
           version == requirements[package]
       IN IF Lower(package) \notin {Lower(k) : k \in DOMAIN listing} THEN "false"
          ELSE IF version # None /\ package \notin DOMAIN listing THEN "raise"
          ELSE IF version # None /\ listing[package] # version THEN "false"
          ELSE verify_installation(Tail(order), requirements, listing)

\* Variant: pip resolves an unpinned requirement anew at every call
BatchInstalled_AnyVersion(requirements) ==
  {f \in [Canon -> Str \cup {None}] :
     \A c \in Canon :
       LET req == {n \in DOMAIN requirements : Lower(n) = c}
       IN IF req = {} THEN f[c] = installed[c]
          ELSE /\ f[c] # None
               /\ \A n \in req : requirements[n] # None => f[c] = requirements[n]}

\* The installed sets a successful "pip install -r" of the requirements can
\* leave: every pinned project at its pin, every unpinned one at the version
\* it has or else at the newest release (the highest version string), the
\* rest untouched.  Empty when two lines pin one project to different
\* versions.
BatchInstalled(requirements) ==
  {f \in [Canon -> Str \cup {None}] :
     \A c \in Canon :
       LET req == {n \in DOMAIN requirements : Lower(n) = c}
       IN IF req = {} THEN f[c] = installed[c]
          ELSE /\ \A n \in req : requirements[n] # None => f[c] = requirements[n]
               /\ (\A n \in req : requirements[n] = None) =>
                     f[c] = IF installed[c] # None THEN installed[c] ELSE MaxStr}

\* Variant: the file is removed only after a successful install
TempAfterExit_KeptOnFailure(exists, success) == exists /\ ~success

\* install_requirements, lines 75-78: "finally: if temp_requirements.exists():
\* temp_requirements.unlink()"
TempAfterExit(exists, success) == FALSE

----------------------------------------------------------------------------
(* UpdateTester: the decisions of the search *)

PackageUpdateStatus(name, current, target, compatible, tested, failed) ==
  [package_name |-> name, current_version |-> current, target_version |-> target,
   compatible_version |-> compatible, tested_versions |-> tested,
   failed_versions |-> failed]

UpdateResult(success, old, new, message) ==
  [success |-> success, old_version |-> old, new_version |-> new,
   error_message |-> message]

\* Variant: candidates are compared as versions, not as strings
SkipCandidate_SameVersion(version, current) == parse(version) = parse(current)

\* Variant: no candidate is skipped
SkipCandidate_Never(version, current) == FALSE

\* "if version == current_version: continue" (a comparison of strings)
SkipCandidate(version, current) == version = current

\* Variant: the first candidate that passes is kept
RecordCompatible_FirstWins(compatible, result) ==
  IF result.success /\ compatible = None THEN result.new_version ELSE compatible

\* Variant: a failure with nothing compatible so far falls back to the
\* current version
RecordCompatible_KeepCurrent(compatible, result) ==
  IF result.success THEN result.new_version
  ELSE IF compatible = None THEN result.old_version ELSE compatible

\* "if result.success: compatible_version = version"
RecordCompatible(compatible, result) ==
  IF result.success THEN result.new_version ELSE compatible

\* Variant: the message of every result is recorded, passed or not
RecordFailure_Always(failed, result) ==
  Put(failed, result.new_version, result.error_message)

\* "else: failed_versions[version] = result.error_message"
RecordFailure(failed, result) ==
  IF result.success THEN failed
  ELSE Put(failed, result.new_version, result.error_message)

\* Variant: the attempt is not recorded
RecordTested_Dropped(tested, version) == tested

\* "tested_versions.append(version)"
RecordTested(tested, version) == Append(tested, version)

\* Variant: the lookup's result is not examined
Tracked_Always(current) == TRUE

\* "if not current_version" (line 127)
Tracked(current) == current # None

\* Variant: the range is resolved whatever the lookup answered
LatestKnown_Always(latest) == TRUE

\* "if not latest_version" (line 134)
LatestKnown(latest) == latest # None

\* Variant: the result of the baseline setup is dropped
BaselineUsable_Ignored(setup_ok) == TRUE

\* "if not self.setup_test_environment(): return {}"
BaselineUsable(setup_ok) == setup_ok

\* Variant: a failed stage does not end the setup
StageContinues_Always(outcome) == TRUE

\* "if not self.env_manager.<stage>(...): return False", and the
\* "except Exception: return False" around the stages (lines 58-78)
StageContinues(outcome) == outcome = "ok"

\* Variant: cleanup leaves the handler on the logger
AfterRemoveHandler_Kept(handler) == handler

\* cleanup, lines 196-198: "logger.removeHandler(self.file_handler)"
AfterRemoveHandler(handler) == "detached"

\* Variant: the tests are run whatever the install returned
AfterInstall_Always(install_ok) == "run_tests"

\* What test_package_update does once the candidate is installed:
\* "run_tests" (line 110).
AfterInstall(install_ok) == IF install_ok THEN "run_tests" ELSE "install_failed"

Version == versions[idx]

\* Texts of the exceptions a test run can end with
Errors == {"OSError"}
NoError == ""

\* UpdateResult.error_message of a result that carries none (the default of
\* the field); messages are tuples of their parts
NoMessage == <<>>

\* test_package_update, lines 103-107: the install failed
InstallFailedResult(name, current, version) ==
  UpdateResult(FALSE, current, version, <<"Failed to install", name, version>>)

\* Variant: the output of the failed test run is the message
TestsResult_OutputAsMessage(current, version, passed) ==
  IF passed THEN UpdateResult(TRUE, current, version, NoMessage)
  ELSE UpdateResult(FALSE, current, version, <<"test output">>)

\* test_package_update, lines 110-116: the test run returned
TestsResult(current, version, passed) ==
  IF passed THEN UpdateResult(TRUE, current, version, NoMessage)
  ELSE UpdateResult(FALSE, current, version, <<"Tests failed">>)

\* Variant: an exception is reported as a failed test run
ErrorResult_AsTestsFailed(current, version, e) ==
  UpdateResult(FALSE, current, version, <<"Tests failed">>)

\* test_package_update, lines 118-120: "except Exception as e"
ErrorResult(current, version, e) ==
  UpdateResult(FALSE, current, version, <<"Error during testing", e>>)

\* Variant: an error is not reported
ExitCode_ErrorAsSuccess(cause) ==
  CASE cause = "ok" -> 0
    [] cause = "error" -> 0
    [] cause = "interrupt" -> 130

\* Variant: an interrupt is reported like any other error
ExitCode_InterruptAsError(cause) ==
  CASE cause = "ok" -> 0
    [] cause = "error" -> 1
    [] cause = "interrupt" -> 1

\* What main returns: 0 at its end, 1 on a failed validation or an
\* Exception, 130 on a KeyboardInterrupt (lines 158, 165, 218-227)
ExitCode(cause) ==
  CASE cause = "ok" -> 0
    [] cause = "error" -> 1
    [] cause = "interrupt" -> 130

\* main, lines 188-191: the packages whose compatible version is another
\* one than the current
Updates(statuses) ==
  LET changed == {n \in DOMAIN statuses :
                    /\ statuses[n].compatible_version # None
                    /\ statuses[n].compatible_version # statuses[n].current_version}
  IN [n \in changed |-> statuses[n].compatible_version]

\* Variant: the selection is ignored
filter_updates_Unfiltered(all_updates, selected_packages) == all_updates

\* filter_updates (lines 133-145); a selection that is None or empty is {}
filter_updates(all_updates, selected_packages) ==
  IF selected_packages = {} THEN all_updates
  ELSE [pkg \in DOMAIN all_updates \cap selected_packages |-> all_updates[pkg]]

\* Variant: only --report-only keeps the files
WritesFiles_DryRunIgnored(args, updates) ==
  ~args.report_only /\ updates # EmptyMap

\* main, line 202: the package files are updated
WritesFiles(args, updates) ==
  ~args.dry_run /\ ~args.report_only /\ updates # EmptyMap

\* ReportGenerator.generate_report, lines 74-82: the statistics of the
\* summary
total_packages(statuses) == Cardinality(DOMAIN statuses)

updatable_packages(statuses) ==
  Cardinality({n \in DOMAIN statuses :
                 /\ statuses[n].compatible_version # None
                 /\ statuses[n].compatible_version # statuses[n].current_version})

failed_packages(statuses) ==
  Cardinality({n \in DOMAIN statuses :
                 \/ statuses[n].compatible_version = None
                 \/ Cardinality(DOMAIN statuses[n].failed_versions) > 0})

generate_report(statuses) ==
  [saved |-> TRUE,
   total_packages |-> total_packages(statuses),
   updatable_packages |-> updatable_packages(statuses),
   failed_packages |-> failed_packages(statuses)]

NoReport ==
  [saved |-> FALSE, total_packages |-> 0, updatable_packages |-> 0,
   failed_packages |-> 0]

\* FileUpdater.update_requirements_txt, lines 59-77: the lines of the
\* packages in updates are pinned to the new version
Rewritten(lines, updates) ==
  [i \in DOMAIN lines |->
     IF lines[i].name \in DOMAIN updates
     THEN [lines[i] EXCEPT !.ver = updates[lines[i].name]]
     ELSE lines[i]]

\* What can go wrong in update_requirements_txt: the backup copy (line 50),
\* reading the file (line 56), writing it after open(..., 'w') has
\* truncated it (line 80); or nothing
Faults == {"none", "backup", "read", "write"}

\* FileUpdater.update_requirements_txt with _create_backup and
\* _restore_from_backup: the content of the file after the call, whether a
\* backup was taken, and the value returned.  restored is the outcome of
\* _restore_from_backup, which the except clause does not look at.
update_requirements_txt(lines, updates, fault, restored) ==
  CASE fault = "backup" -> [content |-> lines, backup |-> FALSE, result |-> "false"]
    [] fault = "read" -> [content |-> lines, backup |-> TRUE, result |-> "false"]
    [] fault = "write" -> [content |-> IF restored THEN lines ELSE <<>>,
                           backup |-> TRUE, result |-> "false"]
    [] fault = "none" -> [content |-> Rewritten(lines, updates), backup |-> TRUE,
                          result |-> "true"]

\* The flags of the command line and the --packages selection
Args == [skip_tests : BOOLEAN, report_only : BOOLEAN, dry_run : BOOLEAN,
         packages : SUBSET Names]

\* No command-line run has started.  before is the content of the manifest
\* when main was called; constructed tells that main has its UpdateTester,
\* ReportGenerator and FileUpdater; update_result is what
\* update_requirements_txt returned ("skipped" when main passed line 202
\* without calling it); why is the place main returned from.
NoRun == [at |-> "none", args |-> [skip_tests |-> FALSE, report_only |-> FALSE,
                                   dry_run |-> FALSE, packages |-> {}],
          updates |-> EmptyMap, exit_code |-> None, interrupted |-> FALSE,
          before |-> <<>>, constructed |-> FALSE, report |-> NoReport,
          update_result |-> "none", backup |-> FALSE, why |-> "none"]

----------------------------------------------------------------------------
(* Initial state: an UpdateTester has been constructed on a project *)

\* A line pins a package to one of the MaxPinned lowest version strings, or
\* names it without a version
Lines == [name : Names, ver : (1..MaxPinned) \cup {None}]

\* Manifests of at most MaxLines lines that name every project once, p
\* before Q
Manifests ==
  {m \in UNION {[1..n -> Lines] : n \in 0..MaxLines} :
     \A i, j \in DOMAIN m : i < j => (m[i].name = "p" /\ m[j].name = "Q")}

Init ==
  /\ manifest \in Manifests
  /\ dist_name \in {"q", "Q"}
  /\ current_packages = EmptyMap
  /\ pkg_order = <<>>
  /\ venv_exists = FALSE
  /\ installed = NoPackages
  /\ pc = "idle"
  /\ op = "none"
  /\ caller = "none"
  /\ baseline_ok = "unset"
  /\ pending = <<>>
  /\ results = EmptyMap
  /\ package_name = "p"
  /\ current_version = None
  /\ latest_version = None
  /\ versions = <<>>
  /\ idx = 1
  /\ tested_versions = <<>>
  /\ failed_versions = EmptyMap
  /\ compatible_version = None
  /\ ret = EmptyMap
  /\ raised = FALSE
  /\ ops = {}
  /\ walk = <<>>
  /\ latest_lookups = 0
  /\ setup_log = <<>>
  /\ setup_ret = "none"
  /\ succession = <<>>
  /\ temp_requirements = FALSE
  /\ file_handler = "attached"
  /\ run = NoRun

\* The locals of find_compatible_update at its entry
FreshSearch(name) ==
  /\ package_name' = name
  /\ current_version' = None
  /\ latest_version' = None
  /\ versions' = <<>>
  /\ idx' = 1
  /\ tested_versions' = <<>>
  /\ failed_versions' = EmptyMap
  /\ compatible_version' = None
  /\ walk' = <<>>
  /\ latest_lookups' = 0

Callable == pc \in {"idle", "done"}

\* State of a public call of the UpdateTester at its entry
FreshCall ==
  /\ baseline_ok' = "unset"
  /\ pending' = <<>>
  /\ results' = EmptyMap
  /\ ret' = EmptyMap
  /\ raised' = FALSE
  /\ ops' = {}
  /\ setup_log' = <<>>

----------------------------------------------------------------------------
(* Public operations *)

\* PackageManager.analyze_packages: reads the manifest into current_packages.
AnalyzePackages ==
  /\ Callable
  /\ current_packages' = parse_requirements_txt(manifest)
  /\ pkg_order' = key_order(manifest)
  /\ setup_log' = <<>>
  /\ setup_ret' = "none"
  /\ succession' = <<>>
  /\ UNCHANGED <<manifest, dist_name, envVars, pc, op, caller, baseline_ok,
                 pending, results, searchVars, ret, raised, ops,
                 temp_requirements, file_handler>>
  /\ UNCHANGED run

\* UpdateTester.update_all_packages, entry: the shared baseline setup starts.
UpdateAllPackages ==
  /\ Callable
  /\ op' = "update_all"
  /\ caller' = "baseline"
  /\ pc' = "create"
  /\ FreshCall
  /\ FreshSearch("p")
  /\ setup_ret' = "running"
  /\ succession' = <<>>
  /\ UNCHANGED <<pkgVars, envVars, temp_requirements, file_handler>>
  /\ UNCHANGED run

\* UpdateTester.find_compatible_update(name) called directly.
FindCompatibleUpdate ==
  /\ Callable
  /\ \E name \in Names :
       /\ op' = "find"
       /\ FreshSearch(name)
  /\ caller' = "none"
  /\ pc' = "find"
  /\ FreshCall
  /\ setup_ret' = "none"
  /\ succession' = <<>>
  /\ UNCHANGED <<pkgVars, envVars, temp_requirements, file_handler>>
  /\ UNCHANGED run

\* UpdateTester.setup_test_environment called directly.  A call that follows
\* a successful call goes on with the succession; another one starts a
\* succession with the installed set it finds.
SetupTestEnvironment ==
  /\ Callable
  /\ op' = "setup"
  /\ caller' = "direct"
  /\ pc' = "create"
  /\ FreshCall
  /\ FreshSearch("p")
  /\ setup_ret' = "running"
  /\ succession' = IF op = "setup" /\ setup_ret = "true" /\ Len(succession) = 2
                   THEN succession
                   ELSE <<installed>>
  /\ UNCHANGED <<pkgVars, envVars, temp_requirements, file_handler>>
  /\ UNCHANGED run

\* UpdateTester.cleanup with EnvironmentManager.cleanup: the sandbox is
\* removed if it exists, a failure of the removal is printed; the handler is
\* removed from the logger and closed.
Cleanup ==
  /\ Callable
  /\ op' = "cleanup"
  /\ caller' = "none"
  /\ pc' = "done"
  /\ FreshSearch("p")
  /\ baseline_ok' = "unset"
  /\ pending' = <<>>
  /\ results' = EmptyMap
  /\ ret' = EmptyMap
  /\ raised' = FALSE
  /\ setup_log' = <<>>
  /\ setup_ret' = "none"
  /\ succession' = <<>>
  /\ \/ \* no sandbox, or shutil.rmtree removes it
        /\ venv_exists' = FALSE
        /\ installed' = NoPackages
        /\ temp_requirements' = FALSE
        /\ ops' = IF venv_exists THEN {"rmtree"} ELSE {}
     \/ \* shutil.rmtree fails: the sandbox stays
        /\ venv_exists
        /\ ops' = {"rmtree_failed"}
        /\ UNCHANGED <<envVars, temp_requirements>>
  /\ file_handler' = AfterRemoveHandler(file_handler)
  /\ UNCHANGED pkgVars
  /\ UNCHANGED run

----------------------------------------------------------------------------
(* setup_test_environment, stage by stage *)

\* Return of setup_test_environment to its caller: update_all_packages
\* aborts on False (lines 183-185) and otherwise starts its loop;
\* find_compatible_update drops the value (line 155) and goes on; a direct
\* caller receives it.
SetupReturns(setup_ok) ==
  /\ setup_ret' = IF setup_ok THEN "true" ELSE "false"
  /\ IF caller = "baseline"
     THEN /\ baseline_ok' = IF setup_ok THEN "ok" ELSE "failed"
          /\ IF BaselineUsable(setup_ok)
             THEN /\ pending' = pkg_order
                  /\ results' = EmptyMap
                  /\ pc' = "next_package"
                  /\ ret' = ret
             ELSE /\ pc' = "done"
                  /\ ret' = EmptyMap
                  /\ UNCHANGED <<pending, results>>
          /\ UNCHANGED succession
     ELSE IF caller = "candidate"
     THEN /\ pc' = "install_package"
          /\ UNCHANGED <<baseline_ok, pending, results, ret, succession>>
     ELSE /\ pc' = "done"
          /\ succession' = IF setup_ok THEN Append(succession, installed') ELSE <<>>
          /\ UNCHANGED <<baseline_ok, pending, results, ret>>

SetupGoesOn(stage) ==
  /\ pc' = stage
  /\ UNCHANGED <<baseline_ok, pending, results, ret, setup_ret, succession>>

\* A stage of setup_test_environment has ended with an outcome ("ok",
\* "fail" for a false result, "raise"); saw is the listing a verify stage
\* worked on; next is the stage that follows, or "return" after the last.
StageEnds(stage, outcome, saw, next) ==
  /\ setup_log' = Append(setup_log, [stage |-> stage, outcome |-> outcome,
                                     saw |-> saw])
  /\ IF StageContinues(outcome)
     THEN IF next = "return" THEN SetupReturns(TRUE) ELSE SetupGoesOn(next)
     ELSE SetupReturns(FALSE)

\* EnvironmentManager.create_virtual_environment
CreateVirtualEnvironment ==
  /\ pc = "create"
  /\ ops' = ops \cup {"reset"}
  /\ \/ \* the old sandbox is removed and a new one created
        /\ venv_exists' = TRUE
        /\ installed' = NoPackages
        /\ StageEnds("create", "ok", EmptyMap, "install_requirements")
     \/ \* shutil.rmtree fails: the old sandbox stays
        /\ venv_exists
        /\ UNCHANGED envVars
        /\ StageEnds("create", "fail", EmptyMap, "install_requirements")
     \/ \* venv.create fails after the old sandbox was removed
        /\ venv_exists' = FALSE
        /\ installed' = NoPackages
        /\ StageEnds("create", "fail", EmptyMap, "install_requirements")
  /\ UNCHANGED <<pkgVars, op, caller, searchVars, raised, temp_requirements,
                 file_handler>>
  /\ UNCHANGED run

\* EnvironmentManager.install_requirements(current_packages), lines 58-67:
\* the requirements are written to temp_requirements.txt in the sandbox.
WriteRequirements ==
  /\ pc = "install_requirements"
  /\ \/ \* the file is written
        /\ venv_exists
        /\ temp_requirements' = TRUE
        /\ pc' = "pip_install_r"
        /\ UNCHANGED <<baseline_ok, pending, results, ret, setupVars>>
     \/ \* open or write raises OSError; the finally clause is passed
        /\ temp_requirements' = TempAfterExit(temp_requirements, FALSE)
        /\ StageEnds("install", "raise", EmptyMap, "verify")
  /\ UNCHANGED <<pkgVars, envVars, op, caller, searchVars, raised, ops,
                 file_handler>>
  /\ UNCHANGED run

\* EnvironmentManager.install_requirements, lines 69-78: pip installs from
\* the file, and the finally clause is passed.
InstallRequirements ==
  /\ pc = "pip_install_r"
  /\ \E success \in BOOLEAN :
       /\ IF success
          THEN installed' \in BatchInstalled(current_packages)
          ELSE UNCHANGED installed
       /\ temp_requirements' = TempAfterExit(temp_requirements, success)
       /\ StageEnds("install", IF success THEN "ok" ELSE "fail", EmptyMap, "verify")
  /\ UNCHANGED <<pkgVars, venv_exists, op, caller, searchVars, raised, ops,
                 file_handler>>
  /\ UNCHANGED run

\* EnvironmentManager.verify_installation(current_packages)
VerifyInstallation ==
  /\ pc = "verify"
  /\ UNCHANGED envVars
  /\ \E listing_ok \in BOOLEAN :
       LET listing == get_installed_packages(listing_ok)
           answer == verify_installation(pkg_order, current_packages, listing)
       IN StageEnds("verify",
                    CASE answer = "true" -> "ok"
                      [] answer = "false" -> "fail"
                      [] answer = "raise" -> "raise",
                    listing, "return")
  /\ UNCHANGED <<pkgVars, op, caller, searchVars, raised, ops,
                 temp_requirements, file_handler>>
  /\ UNCHANGED run

----------------------------------------------------------------------------
(* find_compatible_update and the loop of update_all_packages *)

\* find_compatible_update returns a status: update_all_packages stores it
\* under the package's name (line 189) and goes to the next package; a
\* direct caller receives it.
Deliver(status) ==
  IF op = "update_all"
  THEN /\ results' = Put(results, package_name, status)
       /\ pending' = Tail(pending)
       /\ pc' = "next_package"
       /\ ret' = ret
  ELSE /\ ret' = status
       /\ pc' = "done"
       /\ UNCHANGED <<results, pending>>

\* An exception leaves find_compatible_update; neither it nor
\* update_all_packages has a handler, so the public call ends by raising.
Raises ==
  /\ raised' = TRUE
  /\ pc' = "done"
  /\ UNCHANGED <<results, pending, ret>>

\* "for package_name in self.package_manager.current_packages" (lines 188-191)
NextPackage ==
  /\ pc = "next_package"
  /\ IF pending = <<>>
     THEN /\ ret' = results
          /\ pc' = "done"
          /\ UNCHANGED searchVars
     ELSE /\ FreshSearch(Head(pending))
          /\ pc' = "find"
          /\ ret' = ret
  /\ setup_log' = <<>>
  /\ setup_ret' = "none"
  /\ UNCHANGED <<pkgVars, envVars, op, caller, baseline_ok, pending, results,
                 raised, ops, succession, temp_requirements, file_handler>>
  /\ UNCHANGED run

\* find_compatible_update, lines 126-131: the current version is looked up.
Find ==
  /\ pc = "find"
  /\ LET current == Get(current_packages, package_name)
     IN IF ~Tracked(current)
        THEN /\ Deliver(PackageUpdateStatus(package_name, Unknown, Unknown, None,
                                            <<>>, EmptyMap))
             /\ UNCHANGED current_version
        ELSE /\ current_version' = current
             /\ pc' = "get_latest"
             /\ UNCHANGED <<results, pending, ret>>
  /\ UNCHANGED <<pkgVars, envVars, op, caller, baseline_ok, raised, ops,
                 setupVars, temp_requirements, file_handler,
                 package_name, latest_version, versions, idx, tested_versions,
                 failed_versions, compatible_version, walk,
                 latest_lookups>>
  /\ UNCHANGED run

\* find_compatible_update, lines 134-139, with PackageManager.get_latest_version
GetLatest ==
  /\ pc = "get_latest"
  /\ ops' = ops \cup {"latest"}
  /\ latest_lookups' = latest_lookups + 1
  /\ \/ \* the registry answers with a version; or None on a status code
        \* other than 200 or a RequestException
        /\ \E latest \in Str \cup {None} :
             /\ latest_version' = latest
             /\ IF LatestKnown(latest)
                THEN /\ pc' = "get_range"
                     /\ UNCHANGED <<results, pending, ret>>
                ELSE Deliver(PackageUpdateStatus(package_name, current_version,
                                                 Unknown, None, <<>>, EmptyMap))
        /\ UNCHANGED raised
     \/ \* the answer lacks ['info']['version']: KeyError, not handled
        /\ Raises
        /\ UNCHANGED latest_version
  /\ UNCHANGED <<pkgVars, envVars, op, caller, baseline_ok,
                 setupVars, temp_requirements, file_handler,
                 package_name, current_version, versions, idx, tested_versions,
                 failed_versions, compatible_version, walk>>
  /\ UNCHANGED run

\* find_compatible_update, lines 141-147, with PackageManager.get_version_range
GetRange ==
  /\ pc = "get_range"
  /\ ops' = ops \cup {"range"}
  /\ \/ \* the registry lists the published versions
        /\ \E published \in {S \in SUBSET Str : Cardinality(S) <= MaxPublished} :
             \E all_versions \in SortedLists(published) :
               versions' = get_version_range(all_versions, current_version,
                                             latest_version)
        /\ pc' = "next_candidate"
        /\ UNCHANGED <<results, pending, ret, raised>>
     \/ \* status code other than 200, RequestException or InvalidVersion: []
        /\ versions' = <<>>
        /\ pc' = "next_candidate"
        /\ UNCHANGED <<results, pending, ret, raised>>
     \/ \* the answer lacks ['releases']: KeyError, not handled
        /\ Raises
        /\ UNCHANGED versions
  /\ UNCHANGED <<pkgVars, envVars, op, caller, baseline_ok,
                 setupVars, temp_requirements, file_handler,
                 package_name, current_version, latest_version, idx,
                 tested_versions, failed_versions, compatible_version, walk,
                 latest_lookups>>
  /\ UNCHANGED run

\* Head of "for version in versions" (lines 150-155) and the return of
\* lines 170-177 when the list is exhausted.
NextCandidate ==
  /\ pc = "next_candidate"
  /\ IF idx > Len(versions)
     THEN /\ Deliver(PackageUpdateStatus(package_name, current_version,
                                         latest_version, compatible_version,
                                         tested_versions, failed_versions))
          /\ UNCHANGED <<idx, caller>>
     ELSE IF SkipCandidate(Version, current_version)
     THEN /\ idx' = idx + 1
          /\ UNCHANGED <<pc, caller, results, pending, ret>>
     ELSE /\ pc' = "create"
          /\ caller' = "candidate"
          /\ UNCHANGED <<idx, results, pending, ret>>
  /\ setup_log' = <<>>
  /\ setup_ret' = IF pc' = "create" THEN "running" ELSE "none"
  /\ UNCHANGED <<pkgVars, envVars, op, baseline_ok, raised, ops,
                 succession, temp_requirements, file_handler,
                 package_name, current_version, latest_version, versions,
                 tested_versions, failed_versions, compatible_version, walk,
                 latest_lookups>>
  /\ UNCHANGED run

\* Lines 158-168: the candidate's result is folded into the status.
Fold(result) ==
  /\ tested_versions' = RecordTested(tested_versions, result.new_version)
  /\ compatible_version' = RecordCompatible(compatible_version, result)
  /\ failed_versions' = RecordFailure(failed_versions, result)
  /\ idx' = idx + 1
  /\ pc' = "next_candidate"

\* test_package_update, lines 103-107, with EnvironmentManager.install_package
InstallPackage ==
  /\ pc = "install_package"
  /\ ops' = ops \cup {"install"}
  /\ \E install_ok \in {ok \in BOOLEAN : ok => venv_exists} :
       /\ installed' = IF install_ok
                       THEN [installed EXCEPT ![Lower(package_name)] = Version]
                       ELSE installed
       /\ IF AfterInstall(install_ok) = "run_tests"
          THEN /\ pc' = "run_tests"
               /\ UNCHANGED <<idx, tested_versions, failed_versions,
                              compatible_version, walk>>
          ELSE LET result == InstallFailedResult(package_name, current_version,
                                                 Version)
               IN /\ Fold(result)
                  /\ walk' = Append(walk, [pos |-> idx, installed |-> install_ok,
                                           passed |-> FALSE, error |-> NoError,
                                           result |-> result])
  /\ setup_log' = <<>>
  /\ setup_ret' = "none"
  /\ UNCHANGED <<pkgVars, venv_exists, op, caller, baseline_ok, pending, results,
                 ret, raised, package_name, current_version, latest_version,
                 versions, latest_lookups, succession, temp_requirements,
                 file_handler>>
  /\ UNCHANGED run

\* test_package_update, lines 109-120, with run_tests
RunTests ==
  /\ pc = "run_tests"
  /\ ops' = ops \cup {"test"}
  /\ \E outcome \in {"pass", "fail"} \cup Errors :
       /\ outcome = "pass" => venv_exists
       /\ LET result == IF outcome \in Errors
                       THEN ErrorResult(current_version, Version, outcome)
                       ELSE TestsResult(current_version, Version, outcome = "pass")
          IN /\ Fold(result)
             /\ walk' = Append(walk, [pos |-> idx, installed |-> TRUE,
                                      passed |-> outcome = "pass",
                                      error |-> IF outcome \in Errors THEN outcome
                                                ELSE NoError,
                                      result |-> result])
  /\ UNCHANGED <<pkgVars, envVars, op, caller, baseline_ok, pending, results,
                 ret, raised, package_name, current_version, latest_version,
                 versions, latest_lookups, setupVars, temp_requirements,
                 file_handler>>
  /\ UNCHANGED run

----------------------------------------------------------------------------
(* main: the command-line run *)

\* Statuses a mocked search returns for a package pinned to 1 with latest
\* version 3: no compatible version, the current one or 2, with or without
\* a failure of 3 in the ledger
MockedStatuses(name) ==
  {PackageUpdateStatus(name, 1, 3, compatible,
                       (IF compatible = 2 THEN <<2>> ELSE <<>>) \o
                       (IF failed THEN <<3>> ELSE <<>>),
                       IF failed THEN Put(EmptyMap, 3, <<"Tests failed">>)
                       ELSE EmptyMap) :
     compatible \in {None, 1, 2}, failed \in BOOLEAN}

MockedResults ==
  {r \in UNION {[D -> UNION {MockedStatuses(n) : n \in Names}] : D \in SUBSET Names} :
     \A n \in DOMAIN r : r[n] \in MockedStatuses(n)}

\* main returns
MainReturns(cause, why) ==
  run' = [run EXCEPT !.at = "returned", !.exit_code = ExitCode(cause),
                     !.why = why]

\* main, lines 149-158: the arguments are parsed and the project path is
\* validated.
Main ==
  /\ run.at = "none"
  /\ pc = "idle"
  /\ \E args \in Args, path_ok \in BOOLEAN :
       IF path_ok
       THEN run' = [run EXCEPT !.at = "validate_tests", !.args = args,
                               !.before = manifest]
       ELSE run' = [run EXCEPT !.at = "returned", !.args = args,
                               !.before = manifest,
                               !.exit_code = ExitCode("error"),
                               !.why = "path"]
  /\ UNCHANGED <<pkgVars, envVars, pc, op, caller, baseline_ok, pending, results,
                 searchVars, ret, raised, ops, setupVars, temp_requirements,
                 file_handler>>

\* main, lines 161-167: without valid tests only a report is made.
MainValidateTests ==
  /\ run.at = "validate_tests"
  /\ \E tests_valid \in BOOLEAN :
       IF ~run.args.skip_tests /\ ~tests_valid /\ ~run.args.report_only
       THEN MainReturns("error", "tests")
       ELSE run' = [run EXCEPT !.at = "construct"]
  /\ UNCHANGED <<pkgVars, envVars, pc, op, caller, baseline_ok, pending, results,
                 searchVars, ret, raised, ops, setupVars, temp_requirements,
                 file_handler>>

\* main, lines 170-172: an UpdateTester is constructed, with a PackageManager
\* whose current_packages is empty and a log file handler, then a
\* ReportGenerator and a FileUpdater.
MainConstruct ==
  /\ run.at = "construct"
  /\ current_packages' = EmptyMap
  /\ pkg_order' = <<>>
  /\ file_handler' = "attached"
  /\ \/ run' = [run EXCEPT !.at = "search", !.constructed = TRUE]
     \/ \* a directory of the ReportGenerator or the FileUpdater cannot be
        \* made: OSError
        MainReturns("error", "construct")
  /\ UNCHANGED <<manifest, dist_name, envVars, pc, op, caller, baseline_ok,
                 pending, results, searchVars, ret, raised, ops, setupVars,
                 temp_requirements>>

\* main, lines 177-178: update_all_packages is called.
MainUpdateAll ==
  /\ run.at = "search"
  /\ ~run.args.skip_tests
  /\ pc = "idle"
  /\ UpdateAllPackages

\* main, lines 177-185: the results are those of update_all_packages, or
\* with --skip-tests the latest versions of a new PackageManager's empty
\* package set
MainResults == IF run.args.skip_tests THEN EmptyMap ELSE ret

\* main, lines 179-195: the results give the updates, which are filtered
\* when packages were selected; an Exception of the search ends the run.
MainCollect ==
  /\ run.at = "search"
  /\ run.args.skip_tests \/ pc = "done"
  /\ IF raised
     THEN MainReturns("error", "search")
     ELSE run' = [run EXCEPT !.at = "report",
                             !.updates =
                                IF run.args.packages # {}
                                THEN filter_updates(Updates(MainResults),
                                                    run.args.packages)
                                ELSE Updates(MainResults)]
  /\ UNCHANGED <<pkgVars, envVars, pc, op, caller, baseline_ok, pending, results,
                 searchVars, ret, raised, ops, setupVars, temp_requirements,
                 file_handler>>

\* main, lines 197-198: the report is generated and saved.
MainReport ==
  /\ run.at = "report"
  /\ \/ run' = [run EXCEPT !.at = "write", !.report = generate_report(MainResults)]
     \/ \* the report cannot be written: OSError
        MainReturns("error", "report")
  /\ UNCHANGED <<pkgVars, envVars, pc, op, caller, baseline_ok, pending, results,
                 searchVars, ret, raised, ops, setupVars, temp_requirements,
                 file_handler>>

\* main, lines 202-204, with FileUpdater.update_package_files: the manifest
\* is rewritten unless the run is a dry run or report-only or there is no
\* update.
MainWrite ==
  /\ run.at = "write"
  /\ IF WritesFiles(run.args, run.updates)
     THEN \E fault \in Faults, restored \in BOOLEAN :
            LET after == update_requirements_txt(manifest, run.updates, fault,
                                                 restored)
            IN /\ manifest' = after.content
               /\ ops' = ops \cup {"manifest_written"}
               /\ run' = [run EXCEPT !.at = "log_results",
                                     !.update_result = after.result,
                                     !.backup = after.backup]
     ELSE /\ run' = [run EXCEPT !.at = "log_results", !.update_result = "skipped"]
          /\ UNCHANGED <<manifest, ops>>
  /\ UNCHANGED <<dist_name, current_packages, pkg_order, envVars, pc, op, caller,
                 baseline_ok, pending, results, searchVars, ret, raised,
                 setupVars, temp_requirements, file_handler>>

\* main, lines 206-218: the outcome is logged and main returns 0.
MainLogResults ==
  /\ run.at = "log_results"
  /\ MainReturns("ok", "end")
  /\ UNCHANGED <<pkgVars, envVars, pc, op, caller, baseline_ok, pending, results,
                 searchVars, ret, raised, ops, setupVars, temp_requirements,
                 file_handler>>

\* The user interrupts the run inside main's try (lines 160-218):
\* KeyboardInterrupt passes every "except Exception" and the finally clause
\* of install_requirements, and reaches the handler of lines 220-222.
KeyboardInterrupt ==
  /\ run.at \in {"validate_tests", "construct", "search", "report", "write",
                 "log_results"}
  /\ run' = [run EXCEPT !.at = "returned", !.exit_code = ExitCode("interrupt"),
                        !.interrupted = TRUE, !.why = "interrupt"]
  /\ pc' = IF pc = "idle" THEN "idle" ELSE "done"
  /\ raised' = (pc \notin {"idle", "done"} \/ raised)
  /\ temp_requirements' = IF pc = "pip_install_r"
                          THEN TempAfterExit(temp_requirements, FALSE)
                          ELSE temp_requirements
  /\ UNCHANGED <<pkgVars, envVars, op, caller, baseline_ok, pending, results,
                 searchVars, ret, ops, setupVars, file_handler>>

\* update_all_packages of an UpdateTester that main is given in place of
\* the one it constructs (test_main.py, lines 58-78 and 117-121): it
\* returns any mapping of statuses, or raises.
UpdateAllPackagesMocked ==
  /\ run.at = "search"
  /\ ~run.args.skip_tests
  /\ pc = "idle"
  /\ pc' = "done"
  /\ op' = "update_all"
  /\ \/ ret' \in MockedResults /\ raised' = FALSE
     \/ ret' = EmptyMap /\ raised' = TRUE
  /\ UNCHANGED <<pkgVars, envVars, caller, baseline_ok, pending, results,
                 searchVars, ops, setupVars, temp_requirements, file_handler,
                 run>>

----------------------------------------------------------------------------

\* The searches of an UpdateTester
Next ==
  \/ AnalyzePackages
  \/ UpdateAllPackages
  \/ FindCompatibleUpdate
  \/ CreateVirtualEnvironment
  \/ WriteRequirements
  \/ InstallRequirements
  \/ VerifyInstallation
  \/ NextPackage
  \/ Find
  \/ GetLatest
  \/ GetRange
  \/ NextCandidate
  \/ InstallPackage
  \/ RunTests

Spec == Init /\ [][Next]_vars

\* The life of an UpdateTester whose setup_test_environment, cleanup and
\* single-package searches are called in any order.  (The runs of
\* update_all_packages, which multiply the states by the statuses of the
\* packages already searched, are followed in Spec.)
NextLifecycle ==
  \/ AnalyzePackages
  \/ FindCompatibleUpdate
  \/ SetupTestEnvironment
  \/ Cleanup
  \/ CreateVirtualEnvironment
  \/ WriteRequirements
  \/ InstallRequirements
  \/ VerifyInstallation
  \/ Find
  \/ GetLatest
  \/ GetRange
  \/ NextCandidate
  \/ InstallPackage
  \/ RunTests

SpecLifecycle == Init /\ [][NextLifecycle]_vars

\* A command-line run, from the call of main to its return
NextMain ==
  \/ Main
  \/ MainValidateTests
  \/ MainConstruct
  \/ MainUpdateAll
  \/ MainCollect
  \/ MainReport
  \/ MainWrite
  \/ MainLogResults
  \/ KeyboardInterrupt
  \/ CreateVirtualEnvironment
  \/ WriteRequirements
  \/ InstallRequirements
  \/ VerifyInstallation
  \/ NextPackage

SpecMain == Init /\ [][NextMain]_vars

\* A command-line run with the search mocked: what main does with any
\* results
NextMainMocked ==
  \/ Main
  \/ MainValidateTests
  \/ MainConstruct
  \/ UpdateAllPackagesMocked
  \/ MainCollect
  \/ MainReport
  \/ MainWrite
  \/ MainLogResults
  \/ KeyboardInterrupt

SpecMainMocked == Init /\ [][NextMainMocked]_vars

----------------------------------------------------------------------------
(* Vocabulary of the properties *)

\* The direct call of find_compatible_update has returned a status.
FindReturned == op = "find" /\ pc = "done" /\ ~raised

\* find_compatible_update has just returned the status of package_name,
\* to its direct caller or to update_all_packages.
JustDelivered ==
  \/ FindReturned
  \/ /\ op = "update_all"
     /\ pc = "next_package"
     /\ package_name \in DOMAIN results

LastStatus == IF op = "find" THEN ret ELSE results[package_name]

\* Every status find_compatible_update has returned in the running call
Statuses ==
  IF op = "find"
  THEN IF FindReturned THEN {ret} ELSE {}
  ELSE {results[n] : n \in DOMAIN results}

\* The walk of the candidate list took place (the status is that of line 170)
Walked(status) == status.current_version # Unknown /\ status.target_version # Unknown

\* Positions of the candidate list that hold another string than the current version
Candidates == {i \in 1..Len(versions) : versions[i] # current_version}

\* Positions whose install and test run both succeeded
Passing == {w.pos : w \in {x \in Range(walk) : x.installed /\ x.passed}}

Last(S) == CHOOSE i \in S : \A j \in S : j <= i

\* The candidate list is in ascending version order
Ascending == \A i, j \in 1..Len(versions) : i < j => parse(versions[i]) <= parse(versions[j])

SetupStages == {"create", "install_requirements", "pip_install_r", "verify"}

\* A candidate is being reset for, installed or tested
Attempting ==
  \/ pc \in SetupStages /\ caller = "candidate"
  \/ pc \in {"install_package", "run_tests"}

----------------------------------------------------------------------------
(* C1 *)

\* C1: when find_compatible_update returns after walking an ascending
\* candidate list, compatible_version is the candidate at the last position
\* of the list, among those differing from the current version, whose
\* install and test run both succeeded, and None when there is none.
C1_HighestPassingWins ==
  (JustDelivered /\ Walked(LastStatus) /\ Ascending) =>
     LastStatus.compatible_version =
        IF Passing \cap Candidates = {} THEN None
        ELSE versions[Last(Passing \cap Candidates)]

\* An earlier candidate passed, a later one failed, and another pattern:
\* two candidates passed.
C1_Witness ==
  /\ JustDelivered /\ Walked(LastStatus) /\ Ascending
  /\ Len(walk) >= 2
  /\ walk[1].installed /\ walk[1].passed
  /\ ~walk[2].passed
  /\ LastStatus.compatible_version = versions[walk[1].pos]

----------------------------------------------------------------------------
(* C2 *)

WellFormed(status) ==
  /\ DOMAIN status.failed_versions \subseteq Range(status.tested_versions)
  /\ status.compatible_version # None =>
       /\ status.compatible_version \notin DOMAIN status.failed_versions
       /\ status.compatible_version \in
            Range(status.tested_versions) \cup {status.current_version}

\* C2: every status returned by find_compatible_update is well formed: the
\* keys of failed_versions are tested versions, and a compatible_version is
\* not a key of failed_versions and is a tested version or the current one.
C2_StatusWellFormed == \A status \in Statuses : WellFormed(status)

\* A status with a compatible version and a failure behind it
C2_Witness ==
  \E status \in Statuses :
    /\ status.compatible_version # None
    /\ DOMAIN status.failed_versions # {}
    /\ Len(status.tested_versions) >= 2

----------------------------------------------------------------------------
(* C3 *)

\* C3: the walk never ends early: when find_compatible_update returns, the
\* positions attempted are all positions of the candidate list that differ
\* from the current version, each once and in the list's order, and
\* tested_versions lists the versions at those positions in that order.
C3_NoEarlyExit ==
  (JustDelivered /\ Walked(LastStatus)) =>
     /\ {walk[i].pos : i \in DOMAIN walk} = Candidates
     /\ \A i, j \in DOMAIN walk : i < j => walk[i].pos < walk[j].pos
     /\ LastStatus.tested_versions = [i \in DOMAIN walk |-> versions[walk[i].pos]]

\* A walk that went on after its first candidate had passed, in a search
\* that came after a walk of another package
C3_Witness ==
  /\ JustDelivered /\ Walked(LastStatus)
  /\ Len(walk) >= 2
  /\ walk[1].passed
  /\ LastStatus.tested_versions = versions
  /\ op = "update_all"
  /\ Cardinality(DOMAIN results) = 2

----------------------------------------------------------------------------
(* C4 *)

\* The sandbox holds the baseline with the candidate in place of the
\* package under test, and nothing else.
BaselineWithCandidate ==
  /\ venv_exists
  /\ \A c \in Canon :
       IF c = Lower(package_name) THEN installed[c] = Version
       ELSE LET req == {n \in DOMAIN current_packages : Lower(n) = c}
            IN IF req = {} THEN installed[c] = None
               ELSE /\ installed[c] # None
                    /\ \A n \in req :
                         current_packages[n] # None => installed[c] = current_packages[n]

\* C4: whenever the test suite is about to run for a candidate, the sandbox's
\* installed set is exactly the baseline with the package under test
\* replaced by the candidate, whatever the outcome of the reset stages.
C4_IsolatedTestRun == pc = "run_tests" => BaselineWithCandidate

----------------------------------------------------------------------------
(* C5 *)

\* C5: no public call ends by raising, and an update_all_packages whose
\* baseline was set up returns a well-formed status for every package of
\* the current set.
C5_FailuresStayLocal ==
  /\ pc = "done" => ~raised
  /\ (op = "update_all" /\ pc = "done" /\ baseline_ok = "ok") =>
        /\ DOMAIN ret = DOMAIN current_packages
        /\ \A n \in DOMAIN ret : WellFormed(ret[n])

----------------------------------------------------------------------------
(* C6 *)

\* C6: once the baseline setup of update_all_packages has failed, the call
\* has returned the empty mapping and has made no registry lookup, no
\* candidate install and no test run.
C6_BaselineFailureAborts ==
  (op = "update_all" /\ baseline_ok = "failed") =>
     /\ pc = "done"
     /\ ~raised
     /\ ret = EmptyMap
     /\ ops \cap {"latest", "range", "install", "test"} = {}

\* The baseline setup failed at its verify stage although packages were
\* waiting to be searched.
C6_Witness ==
  /\ op = "update_all"
  /\ baseline_ok = "failed"
  /\ pc = "done"
  /\ pkg_order # <<>>
  /\ venv_exists
  /\ \E c \in Canon : installed[c] # None

----------------------------------------------------------------------------
(* C7 *)

ManifestPackages == {manifest[i].name : i \in DOMAIN manifest}

\* C7: update_all_packages on a freshly constructed UpdateTester, with the
\* baseline set up, returns one entry for every package the manifest pins,
\* each with a current_version and a target_version.
C7_EveryManifestPackageReported ==
  (op = "update_all" /\ pc = "done" /\ ~raised /\ baseline_ok = "ok") =>
     /\ DOMAIN ret = ManifestPackages
     /\ \A n \in DOMAIN ret : /\ ret[n].current_version # None
                              /\ ret[n].target_version # None

----------------------------------------------------------------------------
(* C8 *)

\* C8: when no candidate of the walk passed, find_compatible_update returns
\* compatible_version = None and every tested version is a key of
\* failed_versions.
C8_AllFailed ==
  (JustDelivered /\ Walked(LastStatus) /\ Passing = {}) =>
     /\ LastStatus.compatible_version = None
     /\ Range(LastStatus.tested_versions) \subseteq DOMAIN LastStatus.failed_versions

\* Two candidates failed, one at the install and one at the tests.
C8_Witness ==
  /\ JustDelivered /\ Walked(LastStatus) /\ Passing = {}
  /\ \E i, j \in DOMAIN walk : ~walk[i].installed /\ walk[j].installed
  /\ Len(LastStatus.tested_versions) >= 2

----------------------------------------------------------------------------
(* C9 *)

\* C9: the current version is in no tested_versions list, of the running
\* search or of a returned status, and no reset, install or test run is
\* under way for a candidate equal to the current version.
C9_CurrentNeverRetested ==
  /\ current_version \notin Range(tested_versions)
  /\ \A status \in Statuses : status.current_version \notin Range(status.tested_versions)
  /\ Attempting => Version # current_version

\* A candidate list that holds the current version was walked to its end
\* and another candidate was tested.
C9_Witness ==
  /\ JustDelivered /\ Walked(LastStatus)
  /\ \E i \in 1..Len(versions) : versions[i] = current_version
  /\ LastStatus.tested_versions # <<>>

----------------------------------------------------------------------------
(* C10 *)

\* C10: find_compatible_update of a package absent from the current package
\* set returns ("unknown", "unknown", None, [], {}) and has made no registry
\* lookup, reset, install or test run.
C10_AbsentPackage ==
  (op = "find" /\ pc = "done" /\ package_name \notin DOMAIN current_packages) =>
     /\ ~raised
     /\ ret = PackageUpdateStatus(package_name, Unknown, Unknown, None, <<>>, EmptyMap)
     /\ ops = {}

\* The package is absent while another package is tracked.
C10_Witness ==
  /\ op = "find" /\ pc = "done"
  /\ package_name \notin DOMAIN current_packages
  /\ current_packages # EmptyMap
  /\ ret.current_version = Unknown

----------------------------------------------------------------------------
(* C11 *)

\* C11: when the registry yields no latest version for a tracked package,
\* find_compatible_update returns (its real current version, "unknown",
\* None, [], {}); the lookup was made once, no version range was resolved
\* and no reset, install or test run was made.
C11_NoLatestVersion ==
  (JustDelivered /\ latest_lookups > 0 /\ latest_version = None) =>
     /\ LastStatus = PackageUpdateStatus(package_name, current_version, Unknown,
                                         None, <<>>, EmptyMap)
     /\ current_version \in Str
     /\ latest_lookups = 1
     /\ versions = <<>>
     /\ walk = <<>>
     /\ op = "find" => ops = {"latest"}

\* The lookup failed for a tracked package while a sandbox with packages in
\* it was standing from an earlier call.
C11_Witness ==
  /\ FindReturned
  /\ latest_lookups = 1 /\ latest_version = None
  /\ ret.target_version = Unknown
  /\ ret.current_version \in Str
  /\ venv_exists
  /\ \E c \in Canon : installed[c] # None

----------------------------------------------------------------------------
(* C12 *)

----------------------------------------------------------------------------
(* C13 *)

\* C13: an exception raised while a candidate is tested does not leave
\* find_compatible_update: the candidate is in tested_versions, it is
\* mapped by failed_versions to the error's text, and every later candidate
\* of the list is attempted.
C13_ErrorCaughtPerCandidate ==
  (JustDelivered /\ Walked(LastStatus)) =>
     \A i \in DOMAIN walk :
       walk[i].error # NoError =>
         LET v == versions[walk[i].pos]
         IN /\ ~raised
            /\ v \in Range(LastStatus.tested_versions)
            /\ v \in DOMAIN LastStatus.failed_versions
            /\ LastStatus.failed_versions[v] =
                  <<"Error during testing", walk[i].error>>
            /\ \A j \in Candidates :
                  j > walk[i].pos => \E k \in DOMAIN walk : walk[k].pos = j

\* The test run of the first candidate raised and the second candidate
\* was then tested and passed.
C13_Witness ==
  /\ JustDelivered /\ Walked(LastStatus)
  /\ Len(walk) = 2
  /\ walk[1].error # NoError
  /\ walk[2].passed
  /\ LastStatus.compatible_version = versions[walk[2].pos]

----------------------------------------------------------------------------
(* C14 *)

\* The stages of setup_test_environment, in the order of lines 59-72
StageOrder == <<"create", "install", "verify">>

\* C14: the stages a setup_test_environment call has executed are the first
\* ones of create, install, verify, in that order and each once; no stage
\* follows one that failed or raised; the call has returned true only after
\* all three succeeded, and false only after a stage failed or raised.
C14_SetupStagesInOrder ==
  /\ Len(setup_log) <= Len(StageOrder)
  /\ \A i \in DOMAIN setup_log :
       /\ setup_log[i].stage = StageOrder[i]
       /\ i < Len(setup_log) => setup_log[i].outcome = "ok"
  /\ setup_ret = "true" =>
       /\ Len(setup_log) = Len(StageOrder)
       /\ \A i \in DOMAIN setup_log : setup_log[i].outcome = "ok"
  /\ setup_ret = "false" =>
       /\ setup_log # <<>>
       /\ setup_log[Len(setup_log)].outcome # "ok"
  /\ setup_ret = "running" =>
       \A i \in DOMAIN setup_log : setup_log[i].outcome = "ok"

\* A direct call returned false after the sandbox was created and the batch
\* install failed: the verify stage was not executed.
C14_Witness ==
  /\ op = "setup" /\ pc = "done"
  /\ setup_ret = "false"
  /\ Len(setup_log) = 2
  /\ setup_log[2].outcome = "fail"
  /\ venv_exists

----------------------------------------------------------------------------
(* C15 *)

----------------------------------------------------------------------------
(* C16 *)

CleanupReturned == op = "cleanup" /\ pc = "done"

\* C16, as stated: whenever cleanup has returned, it has not raised, the
\* sandbox does not exist and the log file handler is detached.
C16_CleanupRemovesSandbox ==
  CleanupReturned =>
     /\ ~raised
     /\ ~venv_exists
     /\ file_handler = "detached"

\* C16, amended: whenever cleanup has returned, it has not raised and the
\* log file handler is detached; the sandbox does not exist unless its
\* removal failed, and then it is as it was.  A cleanup whose removal did
\* not fail leaves the same state from every state, a repeated one too.
C16_CleanupBestEffort ==
  CleanupReturned =>
     /\ ~raised
     /\ file_handler = "detached"
     /\ venv_exists => "rmtree_failed" \in ops
     /\ "rmtree_failed" \notin ops =>
          (installed = NoPackages /\ ~temp_requirements)

\* cleanup removed a sandbox that stood from an earlier call.
C16_Witness ==
  /\ CleanupReturned
  /\ ops = {"rmtree"}
  /\ ~venv_exists
  /\ file_handler = "detached"

----------------------------------------------------------------------------
(* C17 *)

\* C17: no operation of the EnvironmentManager raises to its caller: every
\* stage setup_test_environment has executed returned a result.
C17_EnvironmentNeverRaises ==
  \A i \in DOMAIN setup_log : setup_log[i].outcome # "raise"

----------------------------------------------------------------------------
(* C18 *)

\* Every required package is listed under a name that matches it ignoring
\* letter case, at the required version where one is required.
Matches(requirements, listing) ==
  \A n \in DOMAIN requirements :
    \E k \in DOMAIN listing :
      /\ Lower(k) = Lower(n)
      /\ requirements[n] # None => listing[k] = requirements[n]

\* C18: verify_installation returns true exactly when the listing it reads
\* matches the requirements, and false otherwise.
C18_VerifyMatches ==
  \A i \in DOMAIN setup_log :
    setup_log[i].stage = "verify" =>
       /\ setup_log[i].outcome \in {"ok", "fail"}
       /\ setup_log[i].outcome = "ok" <=>
             Matches(current_packages, setup_log[i].saw)

----------------------------------------------------------------------------
(* C19 *)

\* C19: temp_requirements.txt exists only while install_requirements is
\* running pip: once the operation has returned or raised, whatever its
\* outcome, the file is not in the sandbox.
C19_TempFileRemoved == temp_requirements => pc = "pip_install_r"

\* install_requirements wrote the file and returned false: the file is gone
\* and the sandbox is still there.
C19_Witness ==
  /\ Len(setup_log) = 2
  /\ setup_log[2].stage = "install" /\ setup_log[2].outcome = "fail"
  /\ venv_exists
  /\ ~temp_requirements

----------------------------------------------------------------------------
(* C20 *)

----------------------------------------------------------------------------
(* C25 *)

----------------------------------------------------------------------------
(* C26 *)

\* C26: the list get_version_range returned for current <= latest is in
\* ascending version order and every version of it is at least current and
\* at most latest.
C26_RangeWithinBounds ==
  (versions # <<>> /\ parse(current_version) <= parse(latest_version)) =>
     /\ Ascending
     /\ \A i \in 1..Len(versions) :
          /\ parse(current_version) <= parse(versions[i])
          /\ parse(versions[i]) <= parse(latest_version)

----------------------------------------------------------------------------
(* C29 *)

\* A search of update_all_packages is past its entry and has not returned
Searching ==
  /\ op = "update_all"
  /\ \/ pc \in {"find", "get_latest", "get_range", "next_candidate"}
     \/ Attempting

\* C29: while a candidate is reset for, installed or tested, every candidate
\* attempted before it has its outcome in tested_versions (and in
\* failed_versions or compatible_version) and lies before it in the list;
\* while update_all_packages searches a package, every package before it
\* has its status in the results, and the package is the next pending one.
C29_OneAttemptAtATime ==
  /\ Attempting =>
        /\ Len(tested_versions) = Len(walk)
        /\ \A i \in DOMAIN walk :
             LET v == versions[walk[i].pos]
             IN /\ walk[i].pos < idx
                /\ tested_versions[i] = v
                /\ IF walk[i].result.success
                   THEN compatible_version # None
                   ELSE v \in DOMAIN failed_versions
  /\ Searching =>
        /\ pending # <<>> /\ Head(pending) = package_name
        /\ \A k \in 1..(Len(pkg_order) - Len(pending)) :
             /\ pkg_order[k] \in DOMAIN results
             /\ results[pkg_order[k]].package_name = pkg_order[k]
             /\ pkg_order[k] # package_name

\* update_all_packages has the status of the first package and resets the
\* sandbox for the second candidate of the second package.
C29_Witness ==
  /\ Searching
  /\ Len(pkg_order) = 2 /\ Len(pending) = 1
  /\ pc = "create" /\ caller = "candidate"
  /\ Len(walk) = 1
  /\ Len(results[pkg_order[1]].tested_versions) > 0

----------------------------------------------------------------------------
(* C21 *)

----------------------------------------------------------------------------
(* C22 *)

\* C22: when main has returned after constructing its UpdateTester, the log
\* file handler is detached and the sandbox does not exist.
C22_ReleasedAtExit ==
  (run.at = "returned" /\ run.constructed) =>
     (file_handler = "detached" /\ ~venv_exists)

----------------------------------------------------------------------------
(* C23 *)

\* C23: the count "Packages with Failed Updates" of the report is the
\* number of packages without a compatible version.
C23_FailedCount ==
  run.report.saved =>
     run.report.failed_packages =
        Cardinality({n \in DOMAIN MainResults :
                       MainResults[n].compatible_version = None})

----------------------------------------------------------------------------
(* C24 *)

\* C24: main has returned 1 with the manifest as it was when main was
\* called, both after an invalid project path, without having constructed
\* a component, and after an error raised by a constructor, the search or
\* the report.
C24_ErrorExit ==
  run.at = "returned" =>
     /\ run.why = "path" =>
           (run.exit_code = 1 /\ ~run.constructed /\ op = "none")
     /\ run.why \in {"path", "construct", "search", "report"} =>
           /\ run.exit_code = 1
           /\ manifest = run.before
           /\ run.update_result = "none"
           /\ "manifest_written" \notin ops

\* The search raised in a run that writes the files when it has updates.
C24_Witness ==
  /\ run.at = "returned" /\ run.why = "search"
  /\ run.exit_code = 1
  /\ raised /\ ~run.interrupted
  /\ run.constructed
  /\ ~run.args.dry_run /\ ~run.args.report_only
  /\ manifest # <<>>

----------------------------------------------------------------------------
(* C27 *)

\* C27: when update_requirements_txt has returned False, the manifest has
\* the content it had before the call; it is changed only with a backup
\* taken.
C27_FalseLeavesManifest ==
  run.at # "none" =>
     /\ run.update_result = "false" => manifest = run.before
     /\ manifest # run.before => run.backup

----------------------------------------------------------------------------
(* C28 *)

\* The updates main is to derive from the results and the selection
ExpectedUpdates ==
  LET chosen == {n \in DOMAIN MainResults :
                   /\ MainResults[n].compatible_version # None
                   /\ MainResults[n].compatible_version #
                         MainResults[n].current_version
                   /\ run.args.packages # {} => n \in run.args.packages}
  IN [n \in chosen |-> MainResults[n].compatible_version]

\* C28: the updates main holds after the search are those of the packages
\* with a compatible version other than the current one, of the selected
\* packages when there is a selection, each with its compatible version;
\* filter_updates without a selection returns them as they are; the file
\* updater has been called only with updates that are not empty.
C28_UpdateMapping ==
  /\ run.at \in {"report", "write", "log_results"} =>
        /\ run.updates = ExpectedUpdates
        /\ filter_updates(run.updates, {}) = run.updates
  /\ run.update_result \in {"true", "false"} => run.updates # EmptyMap

\* Both packages have an update, p is selected, and the file updater has
\* been called with the update of p alone.
C28_Witness ==
  /\ run.at = "log_results"
  /\ run.args.packages = {"p"}
  /\ DOMAIN Updates(MainResults) = {"p", "Q"}
  /\ DOMAIN run.updates = {"p"}
  /\ run.update_result = "true"

====
